---- MODULE Spec2Model ----
(***************************************************************************)
(* A model of the tally-filter and concurrent-append core of OpenMC:       *)
(*   - SharedArray<T> (include/openmc/shared_array.h): its host storage,   *)
(*     its size and capacity, its device mirror, and thread_safe_append    *)
(*     split at its atomic steps;                                          *)
(*   - the C API of the mesh, Zernike and energy-function filters          *)
(*     (src/tallies/filter_*.cpp);                                         *)
(*   - Named (include/openmc/named.h): objects that own a malloc'ed name.  *)
(* Five specifications share the variables:                                *)
(*   SpecAppend  a concurrent-append phase on one SharedArray,             *)
(*   Spec        the single-threaded life cycle of one SharedArray,        *)
(*   SpecFilter  calls of the filter C API on a fixed set of filters,      *)
(*   SpecEval    calls of the member functions of the Zernike and          *)
(*               energy-function filters: set_order, set_data,             *)
(*               text_label and get_all_bins,                              *)
(*   SpecNamed   constructions, assignments, set_name calls and            *)
(*               destructions of Named objects.                            *)
(***************************************************************************)
EXTENDS Integers, Sequences, FiniteSets, TLC

\* ------------------------------------------------------------------ bounds
NThreads == 2      \* appending threads of a concurrent-append phase
MaxCalls == 2      \* thread_safe_append calls one thread performs in a phase
MaxCap == 2        \* largest capacity handed to SharedArray(int) and reserve
MaxBlocks == 2     \* host blocks obtained from new[] in one behaviour

Threads == 1..NThreads
Values == {1, 2}   \* the element type T, cut down to two values
Null == 0          \* nullptr; host blocks are named 1, 2, ...
Blocks == 1..MaxBlocks
MaxStart == 1      \* largest size_ at the start of an append phase
AppendCap == NThreads * MaxCalls + 1   \* capacities of an append phase
Min(a, b) == IF a <= b THEN a ELSE b
Max(a, b) == IF a >= b THEN a ELSE b

VARIABLES
  \* ---- SharedArray members (shared_array.h:207-210)
  data_,         \* T* data_: Null or the name of a host block
  device_data_,  \* T* device_data_: Null or the name of the mapped host block
  size_,         \* int size_
  capacity_,     \* int capacity_
  \* ---- the host heap
  heap,          \* heap[b]: contents of block b, slot i at position i+1
  live,          \* blocks obtained from new[] and not yet delete[]d
  nblocks,       \* number of blocks obtained from new[] so far
  \* ---- the device data environment
  devSize,       \* device copy of size_ (declare target)
  devCap,        \* device copy of capacity_
  devMap,        \* devMap[b]: -1 when block b is not mapped, else the mapped extent
  devData,       \* devData[b]: device contents of the mirror of block b
  \* ---- single-threaded life cycle (Spec)
  op,            \* name of the last operation performed
  opArg,         \* the capacity passed to it when it is reserve or the
                 \* constructor, else 0
  ret,           \* the index it returned when it is thread_safe_append; for
                 \* reserve, 1 when it allocated and 0 when it returned early;
                 \* else 0
  sinceClear,    \* TRUE from a clear() until the next reserve()
  \* ---- a concurrent-append phase (SpecAppend)
  pc,            \* pc[t]: "call" (between calls) or "captured" (after line 99)
  idx,           \* idx[t]: the local idx of thread t's call in flight
  arg,           \* arg[t]: the value passed to thread t's call in flight
  todo,          \* todo[t]: calls thread t has still to start
  plan,          \* plan[t]: calls thread t performs in the phase
  log,           \* log[t]: <<value, returned index>> of thread t's finished calls
  written,       \* written[i]: number of writes to slot i in the phase
  startSize,     \* size_ at the start of the phase
  \* ---- filters (SpecFilter)
  tally_filters, \* model::tally_filters
  out,           \* what the last getter wrote through its output pointers;
                 \* the label the last text_label returned; the locals i and
                 \* f of the last EnergyFunctionFilter_get_all_bins
  match,         \* the FilterMatch of the event being scored, as the
                 \* get_all_bins of the last call left it: the sequence of
                 \* its (bin, weight) entries; empty (reset) when the last
                 \* call was not a get_all_bins
  \* ---- Named objects (SpecNamed)
  named,         \* named[o]: [alive, name_] of object o; name_ is Null or the
                 \* name of a block obtained from malloc / realloc
  nameHeap,      \* nameHeap[b]: [state, str, frees] of block b: "unused",
                 \* "allocated" or "freed"; the string it holds; the number
                 \* of times it was passed to free
  namedOp,       \* the last operation on Named objects: [fn, a, b]
  call           \* the last call: [fn, index, args, outcome], outcome being
                 \* "returned" (its code is in ret), "threw" (an exception
                 \* left it), "crashed" (a fault killed it), "terminated"
                 \* (Expects failed), "unreachable" (UNREACHABLE() was
                 \* reached), "trapped" (an int overflow trapped) or
                 \* "overflowed" (it wrote beyond a fixed-size array)

saVars == <<data_, device_data_, size_, capacity_, heap, live, nblocks>>
devVars == <<devSize, devCap, devMap, devData>>
seqVars == <<op, opArg, ret, sinceClear>>
appVars == <<pc, idx, arg, todo, plan, log, written, startSize>>
filtVars == <<tally_filters, out, match, call>>
namedVars == <<named, nameHeap, namedOp>>
vars == <<saVars, devVars, seqVars, appVars, filtVars, namedVars>>

\* ------------------------------------------------------------ host storage
\* new T[n]: the possible contents of a fresh block.  They are uninitialized,
\* so any; the model lets every slot of one block hold the same arbitrary
\* value.
NewBlocks(n) == {[i \in 1..n |-> g] : g \in Values}

\* data_[i]
At(i) == heap[data_][i + 1]

NoBlocks == [b \in Blocks |-> <<>>]
NoMaps == [b \in Blocks |-> -1]

\* ------------------------------------------------------------------ Named
\* (the Named part of the state; its operations come last)
NNamed == 2        \* Named objects (storage for them) in one behaviour
MaxNameBlocks == 3 \* blocks obtained from malloc / realloc in one behaviour
Objects == 1..NNamed
NameBlocks == 1..MaxNameBlocks
NoNameOp == [fn |-> "none", a |-> 0, b |-> 0]
IdleNamed ==
  /\ named = [o \in Objects |-> [alive |-> FALSE, name_ |-> Null]]
  /\ nameHeap = [b \in NameBlocks |-> [state |-> "unused", str |-> "", frees |-> 0]]
  /\ namedOp = NoNameOp

\* ---------------------------------------------------------------- filters
\* (the filter part of the state; its operations follow the SharedArray's)
NoCall == [fn |-> "none", index |-> -1, args |-> <<>>, outcome |-> "none"]
Unwritten == [written |-> FALSE, val |-> <<>>]
Wrote(v) == [written |-> TRUE, val |-> v]

\* ------------------------------------------- SharedArray::thread_safe_append
\* One call of thread t takes two steps: the atomic capture (line 99), then
\* either the atomic clamp and return -1 (lines 102-107) or the slot write and
\* return idx (lines 111-113).  capacity_ and data_ are only read.

\* a thread's call returns r: the call is logged and the thread is between
\* calls again
Return(t, r) ==
  /\ log' = [log EXCEPT ![t] = Append(@, <<arg[t], r>>)]
  /\ pc' = [pc EXCEPT ![t] = "call"]

\* a capture that loses a concurrent increment: the read and the write of
\* size_ are not one atomic step
CaptureLost(t, v) ==
  /\ pc[t] = "call" /\ todo[t] > 0
  /\ idx' = [idx EXCEPT ![t] = size_]
  /\ size_' = IF \E u \in Threads : u # t /\ pc[u] = "captured"
                THEN size_ ELSE size_ + 1
  /\ arg' = [arg EXCEPT ![t] = v]
  /\ todo' = [todo EXCEPT ![t] = @ - 1]
  /\ pc' = [pc EXCEPT ![t] = "captured"]
  /\ UNCHANGED <<data_, device_data_, capacity_, heap, live, nblocks>>
  /\ UNCHANGED <<plan, log, written, startSize>>

\* #pragma omp atomic capture: idx = size_++
Capture(t, v) ==
  /\ pc[t] = "call" /\ todo[t] > 0
  /\ idx' = [idx EXCEPT ![t] = size_]
  /\ size_' = size_ + 1
  /\ arg' = [arg EXCEPT ![t] = v]
  /\ todo' = [todo EXCEPT ![t] = @ - 1]
  /\ pc' = [pc EXCEPT ![t] = "captured"]
  /\ UNCHANGED <<data_, device_data_, capacity_, heap, live, nblocks>>
  /\ UNCHANGED <<plan, log, written, startSize>>

\* a clamp that resets the counter instead of setting it to the capacity
ClampZero(t) ==
  /\ pc[t] = "captured" /\ idx[t] >= capacity_
  /\ size_' = 0
  /\ Return(t, -1)
  /\ UNCHANGED <<data_, device_data_, capacity_, heap, live, nblocks>>
  /\ UNCHANGED <<idx, arg, todo, plan, written, startSize>>

\* a failing call that leaves the counter where the capture put it
ClampNone(t) ==
  /\ pc[t] = "captured" /\ idx[t] >= capacity_
  /\ size_' = size_
  /\ Return(t, -1)
  /\ UNCHANGED <<data_, device_data_, capacity_, heap, live, nblocks>>
  /\ UNCHANGED <<idx, arg, todo, plan, written, startSize>>

\* a clamp that is off by one
ClampAbove(t) ==
  /\ pc[t] = "captured" /\ idx[t] >= capacity_
  /\ size_' = capacity_ + 1
  /\ Return(t, -1)
  /\ UNCHANGED <<data_, device_data_, capacity_, heap, live, nblocks>>
  /\ UNCHANGED <<idx, arg, todo, plan, written, startSize>>

\* if (idx >= capacity_) { #pragma omp atomic write: size_ = capacity_;
\*                         return -1; }
Clamp(t) ==
  /\ pc[t] = "captured" /\ idx[t] >= capacity_
  /\ size_' = capacity_
  /\ Return(t, -1)
  /\ UNCHANGED <<data_, device_data_, capacity_, heap, live, nblocks>>
  /\ UNCHANGED <<idx, arg, todo, plan, written, startSize>>

\* a slot write one slot too low
StoreBelow(t) ==
  /\ pc[t] = "captured" /\ idx[t] < capacity_
  /\ LET i == Max(idx[t] - 1, 0) IN
       /\ heap' = [heap EXCEPT ![data_][i + 1] = arg[t]]
       /\ written' = [written EXCEPT ![i] = @ + 1]
  /\ Return(t, idx[t])
  /\ UNCHANGED <<data_, device_data_, size_, capacity_, live, nblocks>>
  /\ UNCHANGED <<idx, arg, todo, plan, startSize>>

\* data_[idx] = value; return idx;
Store(t) ==
  /\ pc[t] = "captured" /\ idx[t] < capacity_
  /\ heap' = [heap EXCEPT ![data_][idx[t] + 1] = arg[t]]
  /\ written' = [written EXCEPT ![idx[t]] = @ + 1]
  /\ Return(t, idx[t])
  /\ UNCHANGED <<data_, device_data_, size_, capacity_, live, nblocks>>
  /\ UNCHANGED <<idx, arg, todo, plan, startSize>>

\* the value a call passes names the call: call k of thread t passes Token(t, k)
Token(t, k) == (t - 1) * MaxCalls + k
AppendCapture == \E t \in Threads : Capture(t, Token(t, plan[t] - todo[t] + 1))
AppendClamp == \E t \in Threads : Clamp(t)
AppendStore == \E t \in Threads : Store(t)

\* The start of a phase: a SharedArray(c) whose size a previous phase (or a
\* resize) left in 0..min(c, MaxStart); no call of the phase reads a slot, so
\* the block's contents are fixed to 0, a value no call passes; every thread
\* is about to perform plan[t] calls.
InitAppend ==
  /\ capacity_ \in 0..AppendCap
  /\ size_ \in 0..Min(capacity_, MaxStart)
  /\ data_ = 1 /\ device_data_ = Null
  /\ heap = [NoBlocks EXCEPT ![1] = [i \in 1..capacity_ |-> 0]]
  /\ live = {1} /\ nblocks = 1
  /\ devSize = 0 /\ devCap = 0 /\ devMap = NoMaps /\ devData = NoBlocks
  /\ op = "SharedArray" /\ opArg = capacity_ /\ ret = 0 /\ sinceClear = FALSE
  /\ pc = [t \in Threads |-> "call"]
  /\ idx = [t \in Threads |-> 0]
  /\ arg = [t \in Threads |-> 1]
  /\ plan \in [Threads -> 0..MaxCalls]
  /\ todo = plan
  /\ log = [t \in Threads |-> <<>>]
  /\ written = [i \in 0..(AppendCap - 1) |-> 0]
  /\ startSize = size_
  /\ tally_filters = <<>> /\ out = Unwritten /\ match = <<>> /\ call = NoCall
  /\ IdleNamed

NextAppend ==
  \/ AppendCapture /\ UNCHANGED <<devVars, seqVars, filtVars, namedVars>>
  \/ AppendClamp /\ UNCHANGED <<devVars, seqVars, filtVars, namedVars>>
  \/ AppendStore /\ UNCHANGED <<devVars, seqVars, filtVars, namedVars>>

SpecAppend == InitAppend /\ [][NextAppend]_vars

\* ------------------------------------------------ SharedArray, one thread
\* The operations of shared_array.h called one at a time on one buffer.  A
\* block whose address the buffer has lost (reserve overwrites data_) stays in
\* live, and in devMap and devData when it is mapped; no operation can read
\* its host contents any more, and heap drops them.

IdleAppend ==
  /\ pc = [t \in Threads |-> "call"]
  /\ idx = [t \in Threads |-> 0]
  /\ arg = [t \in Threads |-> 1]
  /\ plan = [t \in Threads |-> 0]
  /\ todo = plan
  /\ log = [t \in Threads |-> <<>>]
  /\ written = [i \in 0..(AppendCap - 1) |-> 0]
  /\ startSize = 0

IdleFilters ==
  tally_filters = <<>> /\ out = Unwritten /\ match = <<>> /\ call = NoCall

Did(name, a, r) == op' = name /\ opArg' = a /\ ret' = r

\* SharedArray() = default, or SharedArray(int capacity)
Init ==
  /\ \/ /\ data_ = Null /\ capacity_ = 0
        /\ heap = NoBlocks /\ live = {} /\ nblocks = 0
     \/ /\ data_ = 1 /\ capacity_ \in 0..MaxCap
        /\ heap \in {[NoBlocks EXCEPT ![1] = c] : c \in NewBlocks(capacity_)}
        /\ live = {1} /\ nblocks = 1
  /\ size_ = 0 /\ device_data_ = Null
  /\ devSize = 0 /\ devCap = 0 /\ devMap = NoMaps /\ devData = NoBlocks
  /\ op = "SharedArray" /\ opArg = capacity_ /\ ret = 0 /\ sinceClear = FALSE
  /\ IdleAppend /\ IdleFilters /\ IdleNamed

\* a reserve that allocates although the capacity is already there
reserve_always(capacity) ==
  /\ nblocks < MaxBlocks
  /\ \E c \in NewBlocks(Max(capacity, 0)) :
       heap' = [b \in Blocks |-> IF b = nblocks + 1 THEN c ELSE <<>>]
  /\ data_' = nblocks + 1
  /\ nblocks' = nblocks + 1
  /\ live' = live \cup {nblocks + 1}
  /\ capacity_' = capacity
  /\ sinceClear' = FALSE
  /\ UNCHANGED <<size_, device_data_, devVars>>
  /\ Did("reserve", capacity, 1)

\* void reserve(int capacity): returns early when the capacity is there, else
\* points data_ at a new block; the old block is neither copied nor deleted
reserve(capacity) ==
  /\ IF capacity <= capacity_
       THEN /\ UNCHANGED <<saVars, devVars, sinceClear>>
            /\ Did("reserve", capacity, 0)
       ELSE /\ nblocks < MaxBlocks
            /\ \E c \in NewBlocks(capacity) :
                 heap' = [b \in Blocks |-> IF b = nblocks + 1 THEN c ELSE <<>>]
            /\ data_' = nblocks + 1
            /\ nblocks' = nblocks + 1
            /\ live' = live \cup {nblocks + 1}
            /\ capacity_' = capacity
            /\ sinceClear' = FALSE
            /\ UNCHANGED <<size_, device_data_, devVars>>
            /\ Did("reserve", capacity, 1)

\* a thread_safe_append that also pushes the new size to the device
thread_safe_append_synced(value) ==
  /\ IF size_ >= capacity_
       THEN /\ size_' = capacity_
            /\ UNCHANGED heap
            /\ Did("thread_safe_append", 0, -1)
       ELSE /\ size_' = size_ + 1
            /\ heap' = [heap EXCEPT ![data_][size_ + 1] = value]
            /\ Did("thread_safe_append", 0, size_)
  /\ devSize' = size_'
  /\ UNCHANGED <<data_, device_data_, capacity_, live, nblocks>>
  /\ UNCHANGED <<devCap, devMap, devData, sinceClear>>

\* int thread_safe_append(const T& value), run by one thread from its first
\* line to its return: idx = size_++; then the clamp and -1, or the slot
\* write and idx
thread_safe_append(value) ==
  /\ IF size_ >= capacity_
       THEN /\ size_' = capacity_
            /\ UNCHANGED heap
            /\ Did("thread_safe_append", 0, -1)
       ELSE /\ size_' = size_ + 1
            /\ heap' = [heap EXCEPT ![data_][size_ + 1] = value]
            /\ Did("thread_safe_append", 0, size_)
  /\ UNCHANGED <<data_, device_data_, capacity_, live, nblocks>>
  /\ UNCHANGED <<devVars, sinceClear>>

\* int size()
size ==
  /\ Did("size", 0, 0)
  /\ UNCHANGED <<saVars, devVars, sinceClear>>

\* T& operator[](int i)
ElementAccess(i) ==
  /\ data_ # Null /\ i < capacity_
  /\ Did("operator[]", 0, 0)
  /\ UNCHANGED <<saVars, devVars, sinceClear>>

\* #pragma omp target update to(size_)
sync_size_host_to_device ==
  /\ devSize' = size_
  /\ Did("sync_size_host_to_device", 0, 0)
  /\ UNCHANGED <<saVars, devCap, devMap, devData, sinceClear>>

\* #pragma omp target update from(size_)
sync_size_device_to_host ==
  /\ size_' = devSize
  /\ Did("sync_size_device_to_host", 0, 0)
  /\ UNCHANGED <<data_, device_data_, capacity_, heap, live, nblocks>>
  /\ UNCHANGED <<devVars, sinceClear>>

\* void resize(int size): size_ = size; sync_size_host_to_device();
resize(n) ==
  /\ size_' = n
  /\ devSize' = n
  /\ Did("resize", 0, 0)
  /\ UNCHANGED <<data_, device_data_, capacity_, heap, live, nblocks>>
  /\ UNCHANGED <<devCap, devMap, devData, sinceClear>>

\* void allocate_on_device(): size_ and capacity_ are copied to the device,
\* data_[:capacity_] is mapped without a copy (a block already mapped stays as
\* it is), and device_data_ is the device address of the mapping
allocate_on_device ==
  /\ devSize' = size_ /\ devCap' = capacity_
  /\ IF data_ # Null /\ devMap[data_] = -1
       THEN /\ devMap' = [devMap EXCEPT ![data_] = capacity_]
            /\ \E c \in NewBlocks(capacity_) :
                 devData' = [devData EXCEPT ![data_] = c]
       ELSE UNCHANGED <<devMap, devData>>
  /\ device_data_' = data_
  /\ Did("allocate_on_device", 0, 0)
  /\ UNCHANGED <<data_, size_, capacity_, heap, live, nblocks, sinceClear>>

\* #pragma omp target exit data map(delete: data_[:capacity_]); nothing
\* happens when data_ is not mapped
free_on_device ==
  /\ IF data_ # Null /\ devMap[data_] # -1
       THEN /\ devMap' = [devMap EXCEPT ![data_] = -1]
            /\ devData' = [devData EXCEPT ![data_] = <<>>]
       ELSE UNCHANGED <<devMap, devData>>
  /\ Did("free_on_device", 0, 0)
  /\ UNCHANGED <<saVars, devSize, devCap, sinceClear>>

\* target update to(size_), to(data_[:capacity_])
copy_host_to_device ==
  /\ devSize' = size_
  /\ IF data_ # Null /\ devMap[data_] # -1
       THEN devData' = [devData EXCEPT ![data_] = heap[data_]]
       ELSE UNCHANGED devData
  /\ Did("copy_host_to_device", 0, 0)
  /\ UNCHANGED <<saVars, devCap, devMap, sinceClear>>

\* target update from(data_[:capacity_]), from(size_)
copy_device_to_host ==
  /\ IF data_ # Null /\ devMap[data_] # -1
       THEN heap' = [heap EXCEPT ![data_] = devData[data_]]
       ELSE UNCHANGED heap
  /\ size_' = devSize
  /\ Did("copy_device_to_host", 0, 0)
  /\ UNCHANGED <<data_, device_data_, capacity_, live, nblocks>>
  /\ UNCHANGED <<devVars, sinceClear>>

\* a clear that keeps the capacity
clear_keeps_capacity ==
  /\ IF data_ # Null
       THEN /\ devMap' = [devMap EXCEPT ![data_] = -1]
            /\ devData' = [devData EXCEPT ![data_] = <<>>]
            /\ live' = live \ {data_}
            /\ heap' = [heap EXCEPT ![data_] = <<>>]
            /\ data_' = Null
       ELSE UNCHANGED <<devMap, devData, live, heap, data_>>
  /\ size_' = 0
  /\ sinceClear' = TRUE
  /\ Did("clear", 0, 0)
  /\ UNCHANGED <<capacity_, device_data_, nblocks, devSize, devCap>>

\* void clear(): if (data_ != nullptr) { free_on_device(); delete[] data_;
\* data_ = nullptr; }  size_ = 0; capacity_ = 0;
clear ==
  /\ IF data_ # Null
       THEN /\ devMap' = [devMap EXCEPT ![data_] = -1]
            /\ devData' = [devData EXCEPT ![data_] = <<>>]
            /\ live' = live \ {data_}
            /\ heap' = [heap EXCEPT ![data_] = <<>>]
            /\ data_' = Null
       ELSE UNCHANGED <<devMap, devData, live, heap, data_>>
  /\ size_' = 0
  /\ capacity_' = 0
  /\ sinceClear' = TRUE
  /\ Did("clear", 0, 0)
  /\ UNCHANGED <<device_data_, nblocks, devSize, devCap>>

Reserve == \E c \in -1..MaxCap : reserve(c)
ThreadSafeAppend == \E v \in Values : thread_safe_append(v)
Size == size
Index == \E i \in 0..(MaxCap - 1) : ElementAccess(i)
Resize == \E n \in 0..MaxCap : resize(n)
SyncSizeHostToDevice == sync_size_host_to_device
SyncSizeDeviceToHost == sync_size_device_to_host
AllocateOnDevice == allocate_on_device
FreeOnDevice == free_on_device
CopyHostToDevice == copy_host_to_device
CopyDeviceToHost == copy_device_to_host
Clear == clear

Next ==
  \/ Reserve /\ UNCHANGED <<appVars, filtVars, namedVars>>
  \/ ThreadSafeAppend /\ UNCHANGED <<appVars, filtVars, namedVars>>
  \/ Size /\ UNCHANGED <<appVars, filtVars, namedVars>>
  \/ Index /\ UNCHANGED <<appVars, filtVars, namedVars>>
  \/ Resize /\ UNCHANGED <<appVars, filtVars, namedVars>>
  \/ SyncSizeHostToDevice /\ UNCHANGED <<appVars, filtVars, namedVars>>
  \/ SyncSizeDeviceToHost /\ UNCHANGED <<appVars, filtVars, namedVars>>
  \/ AllocateOnDevice /\ UNCHANGED <<appVars, filtVars, namedVars>>
  \/ FreeOnDevice /\ UNCHANGED <<appVars, filtVars, namedVars>>
  \/ CopyHostToDevice /\ UNCHANGED <<appVars, filtVars, namedVars>>
  \/ CopyDeviceToHost /\ UNCHANGED <<appVars, filtVars, namedVars>>
  \/ Clear /\ UNCHANGED <<appVars, filtVars, namedVars>>

Spec == Init /\ [][Next]_vars

\* ------------------------------------------- the calls of an append phase
RECURSIVE SumTo(_, _)
SumTo(f, n) == IF n = 0 THEN 0 ELSE f[n] + SumTo(f, n - 1)

Calls == {c \in Threads \X (1..MaxCalls) : c[2] <= Len(log[c[1]])}  \* returned
ValOf(c) == log[c[1]][c[2]][1]
RetOf(c) == log[c[1]][c[2]][2]
Succeeded == {c \in Calls : RetOf(c) >= 0}
Failed == {c \in Calls : RetOf(c) = -1}
NPlanned == SumTo(plan, NThreads)
AllReturned == \A t \in Threads : pc[t] = "call" /\ todo[t] = 0
Appenders == {t \in Threads : plan[t] > 0}
Slots == 0..(AppendCap - 1)
NWrites == Cardinality({w \in Slots \X (1..NPlanned) : w[2] <= written[w[1]]})

\* ------------------------------------------------ claims on an append phase
\* T threads perform K calls each on a buffer of size 0 and capacity T*K
ExactFit ==
  /\ startSize = 0
  /\ Appenders # {}
  /\ \E K \in 1..MaxCalls :
       /\ \A t \in Appenders : plan[t] = K
       /\ capacity_ = Cardinality(Appenders) * K

\* C1: exact-fit concurrent append.  With T >= 1 threads performing K >= 1
\* calls each on a buffer of size 0 and capacity T*K, under every interleaving
\* of the capture and slot-write steps: every call returns a non-negative
\* index, the returned indices are pairwise distinct, no slot is written
\* twice, and once all calls have returned the indices are exactly 0..T*K-1,
\* every slot was written once and size() = T*K.
C1_ExactFit ==
  ExactFit =>
    /\ \A c \in Calls : RetOf(c) >= 0
    /\ \A c, d \in Calls : c # d => RetOf(c) # RetOf(d)
    /\ \A i \in Slots : written[i] <= 1
    /\ AllReturned =>
         /\ {RetOf(c) : c \in Calls} = 0..(NPlanned - 1)
         /\ \A i \in 0..(NPlanned - 1) : written[i] = 1
         /\ size_ = NPlanned
         /\ size_ = capacity_

C1_Witness ==
  /\ ExactFit /\ AllReturned
  /\ Cardinality(Appenders) = 2 /\ NPlanned = 4 /\ size_ = 4
  /\ RetOf(<<1, 1>>) > RetOf(<<2, 1>>) /\ RetOf(<<1, 2>>) < RetOf(<<2, 2>>)

\* C2: overflow.  On a buffer of size 0 and capacity C, C + M calls (M > 0)
\* from any number of threads leave, once all have returned, size() = C,
\* exactly M calls that returned -1 and exactly C calls that returned an
\* index in 0..C-1.
C2_Overflow ==
  (startSize = 0 /\ NPlanned > capacity_ /\ AllReturned) =>
    /\ size_ = capacity_
    /\ Cardinality(Failed) = NPlanned - capacity_
    /\ Cardinality({c \in Calls : RetOf(c) \in 0..(capacity_ - 1)}) = capacity_
    /\ Calls = Succeeded \cup Failed

C2_Witness ==
  /\ startSize = 0 /\ AllReturned /\ capacity_ = 2 /\ NPlanned = 4
  /\ Cardinality(Failed) = 2 /\ Cardinality(Appenders) = 2
  /\ RetOf(<<1, 2>>) = -1 /\ RetOf(<<2, 2>>) = -1

C4_SizeNeverDecreases == [][size_' >= size_]_vars

\* C4 as amended: the capture and slot-write steps never decrease size_; the
\* clamp step of a failing call sets it to capacity_, which is lower than the
\* value the failing capture left, and to nothing lower: min(size_, capacity_)
\* never decreases, and size_ never drops below it.
C4_ClampedSizeMonotone ==
  [][/\ Min(size_', capacity_') >= Min(size_, capacity_)
     /\ (size_' < size_ => size_' = capacity_ /\ size_ > capacity_)]_vars

C4_Witness ==
  /\ \E t \in Threads : Len(log[t]) >= 1 /\ log[t][Len(log[t])][2] = -1
  /\ size_ = capacity_ /\ capacity_ >= 1
  /\ \E t \in Threads : pc[t] = "captured" /\ idx[t] > capacity_

\* the calls in flight that captured an index beyond the capacity
Overshooting == {t \in Threads : pc[t] = "captured" /\ idx[t] >= capacity_}

\* C5 as stated: size_ <= capacity_ in every state of a phase that starts
\* with size <= capacity, calls in flight included.
C5_SizeWithinCapacity == size_ <= capacity_

\* C5 as amended: size_ exceeds capacity_ by at most the number of failing
\* calls that have captured and not yet clamped, so size_ <= capacity_
\* whenever no failing call is in flight.
C5_SizeWithinCapacityAtRest ==
  /\ size_ <= capacity_ + Cardinality(Overshooting)
  /\ size_ >= 0

C5_Witness ==
  /\ Overshooting = {} /\ size_ = capacity_ /\ Failed # {}
  /\ \E t \in Threads : pc[t] = "captured"

\* -------------------------------------------- claims on the single thread
\* the operations that name the device in shared_array.h
DeviceOps ==
  {"allocate_on_device", "copy_host_to_device", "copy_device_to_host",
   "free_on_device", "sync_size_host_to_device", "sync_size_device_to_host"}

C7_Reserve ==
  [][op' = "reserve" =>
       /\ size_' = size_
       /\ capacity_' = Max(capacity_, opArg')
       /\ (opArg' <= capacity_ => UNCHANGED <<saVars, devVars>>)
       /\ (opArg' > capacity_ => data_' # data_ /\ data_' # Null)]_vars

C7_Witness ==
  /\ op = "reserve" /\ ret = 1 /\ opArg = 2 /\ capacity_ = 2
  /\ size_ = 1 /\ data_ = 2

\* C8: clear() leaves size 0, capacity 0 and the data pointer null with its
\* block released; a clear() right after a clear() changes nothing; and a
\* thread_safe_append after clear() and before a reserve returns -1 and
\* leaves size at 0.
C8_Clear ==
  [][/\ (op' = "clear" =>
           /\ size_' = 0 /\ capacity_' = 0 /\ data_' = Null
           /\ (data_ # Null => data_ \notin live')
           /\ (op = "clear" => UNCHANGED <<saVars, devVars>>))
     /\ (sinceClear' /\ op' = "thread_safe_append" =>
           ret' = -1 /\ size_' = 0 /\ UNCHANGED heap)]_vars

C8_Witness ==
  /\ op = "thread_safe_append" /\ sinceClear /\ ret = -1 /\ size_ = 0
  /\ nblocks = 1 /\ live = {} /\ devSize = 2

\* C19: reserve keeps the stored elements.  For a buffer with storage and
\* 0 < size <= capacity, after a reserve(c) with c above the capacity,
\* data[i] is what it was for every i below size, and the block used before
\* the call has been released.
C19_ReserveKeepsElements ==
  [][(/\ op' = "reserve" /\ opArg' > capacity_
      /\ data_ # Null /\ size_ > 0 /\ size_ <= capacity_)
     => /\ \A i \in 0..(size_ - 1) :
             heap'[data_'][i + 1] = heap[data_][i + 1]
        /\ data_ \notin live']_vars

\* C20: the device-mirror life cycle is well formed.  A release
\* (free_on_device, also inside clear) is performed only while the block it
\* names is mapped, with the extent that was mapped; and every mapping is
\* the mapping of the block the buffer holds, with its capacity as extent,
\* until it is released.
C20_MirrorLifecycle ==
  [][/\ (op' \in {"free_on_device", "clear"} /\ data_ # Null)
        => devMap[data_] # -1 /\ devMap[data_] = capacity_
     /\ \A b \in Blocks :
          devMap'[b] # -1 => b = data_' /\ devMap'[b] = capacity_']_vars

\* ================================================================ filters
NMeshes == 2       \* model::meshes_size
MaxOrder == 2      \* largest Zernike order passed to a setter
MaxLen == 2        \* longest energy grid passed to set_data

\* error codes of openmc/capi.h
OPENMC_E_OUT_OF_BOUNDS == -3
OPENMC_E_INVALID_ARGUMENT == -5
OPENMC_E_INVALID_TYPE == -6

\* model::tally_filters holds one filter of each type the C API serves
TypeOf ==
  <<"MeshFilter", "MeshSurfaceFilter", "ZernikeFilter", "ZernikeRadialFilter",
    "EnergyFunctionFilter">>
n_filters == Len(TypeOf)
FilterIndex == 0..(n_filters - 1)

\* the grids a caller passes hold up to MaxLen of the energies 1..MaxLen;
\* the response at energy e of the i-th point is YOf(e, i)
Energies == 1..MaxLen
YOf(e, i) == 10 * i - e
SeqsUpTo(S, n) == UNION {[1..k -> S] : k \in 0..n}
GridArgs ==
  {<<e, [i \in 1..Len(e) |-> YOf(e[i], i)]>> : e \in SeqsUpTo(Energies, MaxLen)}
\* the (x, y, r) a caller passes
ParamArgs == {<<0, 0, 1>>, <<1, 0, 2>>, <<0, 1, 1>>}
Increasing(e) == \A i \in 2..Len(e) : e[i] > e[i - 1]

\* int verify_filter(int32_t index): the index names an allocated filter
verify_filter(index) ==
  IF index < 0 \/ index >= n_filters THEN OPENMC_E_OUT_OF_BOUNDS ELSE 0

\* ---- int: 32 bits, two's complement
INT_MAX == 2147483647
INT_MIN == -INT_MAX - 1

\* a + b as the machine adds two ints
WrapAdd(a, b) ==
  IF a >= 0 /\ b >= 0 /\ a > INT_MAX - b THEN (a + INT_MIN) + (b + INT_MIN)
  ELSE IF a < 0 /\ b < 0 /\ a < INT_MIN - b THEN (a - INT_MIN) + (b - INT_MIN)
  ELSE a + b

\* a * b (b >= 0) as the machine multiplies two ints: the low 32 bits of the
\* product
RECURSIVE WrapMul(_, _)
WrapMul(a, b) ==
  IF b = 0 THEN 0
  ELSE LET h == WrapMul(a, b \div 2)
           d == WrapAdd(h, h)
       IN IF b % 2 = 1 THEN WrapAdd(d, a) ELSE d

\* a * b (a, b > 0) is not representable in an int
MulOverflows(a, b) == a > INT_MAX \div b

\* a / b (b > 0) of C: the quotient truncated toward zero
CDiv(a, b) == IF a >= 0 THEN a \div b ELSE (a + (b - 1)) \div b

\* void Filter::ZernikeFilter_set_order(int order), for order < INT_MAX - 1.
\* (order+1) * (order+2) is an int product: where it overflows the filter
\* gets the low 32 bits of the product (the other outcome of the overflow,
\* a trap, is in SetOrder).
ZernikeFilter_set_order(f, order) ==
  IF order < 0
    THEN [threw |-> TRUE, filt |-> f]
    ELSE [threw |-> FALSE,
          filt |-> [f EXCEPT !.order_ = order,
                             !.n_bins_ = CDiv(WrapMul(order + 1, order + 2), 2)]]

\* void Filter::ZernikeRadialFilter_set_order(int order)
ZernikeRadialFilter_set_order(f, order) ==
  LET z == ZernikeFilter_set_order(f, order) IN
    IF z.threw THEN z
    ELSE [threw |-> FALSE, filt |-> [z.filt EXCEPT !.n_bins_ = order \div 2 + 1]]

\* Filter::set_order, selected by the type tag
set_order(f, order) ==
  IF f.type = "ZernikeRadialFilter"
    THEN ZernikeRadialFilter_set_order(f, order)
    ELSE ZernikeFilter_set_order(f, order)

\* the copy loop of set_data from element i on (1-based): it throws at the
\* first energy that does not exceed its predecessor
RECURSIVE CopyGrid(_, _, _, _)
CopyGrid(f, energy, y, i) ==
  IF i > Len(energy) THEN [threw |-> FALSE, filt |-> f]
  ELSE IF i > 1 /\ energy[i] <= energy[i - 1] THEN [threw |-> TRUE, filt |-> f]
  ELSE CopyGrid([f EXCEPT !.energy_ = Append(@, energy[i]),
                          !.y_ = Append(@, y[i])],
                energy, y, i + 1)

\* void Filter::set_data(span energy, span y), called with equal sizes:
\* energy_.clear(); y_.clear(); then the copy loop
set_data(f, energy, y) ==
  CopyGrid([f EXCEPT !.energy_ = <<>>, !.y_ = <<>>], energy, y, 1)

\* std::pair<int, Filter&> check_zernike_filter(int32_t index)
check_zernike_filter(index) ==
  LET err == verify_filter(index) IN
    IF err # 0 THEN [first |-> err, second |-> 0]
    ELSE IF tally_filters[index].type # "ZernikeFilter"
      THEN [first |-> OPENMC_E_INVALID_TYPE, second |-> index]
      ELSE [first |-> 0, second |-> index]

\* what a call leaves behind
Api(fn, index, args, outcome, r, o, tf) ==
  /\ call' = [fn |-> fn, index |-> index, args |-> args, outcome |-> outcome]
  /\ ret' = r
  /\ out' = o
  /\ tally_filters' = tf

\* a call that returns the error code err
Fails(fn, index, args, err) ==
  Api(fn, index, args, "returned", err, Unwritten, tally_filters)

\* openmc_mesh_filter_get_mesh(index, index_mesh); null tells whether
\* index_mesh is a null pointer.  The mesh is the value returned; nothing is
\* written through index_mesh.
mesh_filter_get_mesh(fn, index, null) ==
  LET args == <<IF null THEN 1 ELSE 0>> IN
  IF null THEN Fails(fn, index, args, OPENMC_E_INVALID_ARGUMENT)
  ELSE IF verify_filter(index) # 0
    THEN Fails(fn, index, args, verify_filter(index))
  ELSE IF tally_filters[index].type # "MeshFilter"
    THEN Fails(fn, index, args, OPENMC_E_INVALID_TYPE)
  ELSE Api(fn, index, args, "returned", tally_filters[index].mesh_,
           Unwritten, tally_filters)

\* openmc_mesh_filter_set_mesh(index, index_mesh)
mesh_filter_set_mesh(fn, index, index_mesh) ==
  LET args == <<index_mesh>> IN
  IF verify_filter(index) # 0
    THEN Fails(fn, index, args, verify_filter(index))
  ELSE IF tally_filters[index].type # "MeshFilter"
    THEN Fails(fn, index, args, OPENMC_E_INVALID_TYPE)
  ELSE IF index_mesh < 0 \/ index_mesh >= NMeshes
    THEN Fails(fn, index, args, OPENMC_E_OUT_OF_BOUNDS)
  ELSE Api(fn, index, args, "returned", 0, Unwritten,
           [tally_filters EXCEPT ![index].mesh_ = index_mesh])

openmc_mesh_filter_get_mesh(index, null) ==
  mesh_filter_get_mesh("openmc_mesh_filter_get_mesh", index, null)
openmc_mesh_filter_set_mesh(index, index_mesh) ==
  mesh_filter_set_mesh("openmc_mesh_filter_set_mesh", index, index_mesh)
\* the mesh-surface calls forward to the mesh calls
openmc_meshsurface_filter_get_mesh(index, null) ==
  mesh_filter_get_mesh("openmc_meshsurface_filter_get_mesh", index, null)
openmc_meshsurface_filter_set_mesh(index, index_mesh) ==
  mesh_filter_set_mesh("openmc_meshsurface_filter_set_mesh", index, index_mesh)

\* a write through an output pointer that is null: undefined behaviour.  The
\* call is killed by the fault, or the store is dropped and the function
\* goes on to its return 0.
NullWrite(fn, index, args) ==
  \/ Api(fn, index, args, "crashed", 0, Unwritten, tally_filters)
  \/ Api(fn, index, args, "returned", 0, Unwritten, tally_filters)

\* openmc_zernike_filter_get_order(index, order); null tells whether order
\* is a null pointer, which the function does not test
openmc_zernike_filter_get_order(index, null) ==
  LET fn == "openmc_zernike_filter_get_order"
      args == <<IF null THEN 1 ELSE 0>>
      check_result == check_zernike_filter(index)
      filt == tally_filters[check_result.second]   \* auto filt: a copy
  IN IF check_result.first # 0 THEN Fails(fn, index, args, check_result.first)
     ELSE IF null THEN NullWrite(fn, index, args)
     ELSE Api(fn, index, args, "returned", 0, Wrote(<<filt.order_>>),
              tally_filters)

\* openmc_zernike_filter_get_params(index, x, y, r); null tells whether x
\* (the pointer written first) is a null pointer
openmc_zernike_filter_get_params(index, null) ==
  LET fn == "openmc_zernike_filter_get_params"
      args == <<IF null THEN 1 ELSE 0>>
      check_result == check_zernike_filter(index)
      filt == tally_filters[check_result.second]   \* auto filt: a copy
  IN IF check_result.first # 0 THEN Fails(fn, index, args, check_result.first)
     ELSE IF null THEN NullWrite(fn, index, args)
     ELSE Api(fn, index, args, "returned", 0,
              Wrote(<<filt.x_, filt.yy_, filt.r_>>), tally_filters)

\* openmc_zernike_filter_set_order(index, order).  auto filt =
\* check_result.second deduces Filter, not Filter&: filt is a copy of the
\* stored filter, set_order acts on the copy, and the copy is dropped at the
\* return.
openmc_zernike_filter_set_order(index, order) ==
  LET fn == "openmc_zernike_filter_set_order"
      check_result == check_zernike_filter(index)
      filt == tally_filters[check_result.second]
      updated == set_order(filt, order)
  IN IF check_result.first # 0
       THEN Fails(fn, index, <<order>>, check_result.first)
     ELSE IF updated.threw
       THEN Api(fn, index, <<order>>, "threw", 0, Unwritten, tally_filters)
     ELSE Api(fn, index, <<order>>, "returned", 0, Unwritten,
              tally_filters)

\* openmc_zernike_filter_set_params(index, x, y, r), called with three
\* non-null pointers; the same copy is updated and dropped
openmc_zernike_filter_set_params(index, x, y, r) ==
  LET fn == "openmc_zernike_filter_set_params"
      check_result == check_zernike_filter(index)
      filt == tally_filters[check_result.second]
      updated == [filt EXCEPT !.x_ = x, !.yy_ = y, !.r_ = r]
  IN IF check_result.first # 0
       THEN Fails(fn, index, <<x, y, r>>, check_result.first)
     ELSE Api(fn, index, <<x, y, r>>, "returned", 0, Unwritten,
              tally_filters)

\* openmc_energyfunc_filter_set_data(index, n, energy, y): set_data acts on
\* the stored filter; what it throws leaves the function with the filter as
\* the loop left it
openmc_energyfunc_filter_set_data(index, energy, y) ==
  LET fn == "openmc_energyfunc_filter_set_data"
      args == <<energy, y>>
  IN IF verify_filter(index) # 0
       THEN Fails(fn, index, args, verify_filter(index))
     ELSE IF tally_filters[index].type # "EnergyFunctionFilter"
       THEN Fails(fn, index, args, OPENMC_E_INVALID_TYPE)
     ELSE LET updated == set_data(tally_filters[index], energy, y) IN
       IF updated.threw
         THEN Api(fn, index, args, "threw", 0, Unwritten,
                  [tally_filters EXCEPT ![index] = updated.filt])
         ELSE Api(fn, index, args, "returned", 0, Unwritten,
                  [tally_filters EXCEPT ![index] = updated.filt])

\* openmc_energyfunc_filter_get_energy(index, n, energy); null tells whether
\* energy (the pointer written first) is a null pointer
openmc_energyfunc_filter_get_energy(index, null) ==
  LET fn == "openmc_energyfunc_filter_get_energy"
      args == <<IF null THEN 1 ELSE 0>> IN
  IF verify_filter(index) # 0
    THEN Fails(fn, index, args, verify_filter(index))
  ELSE IF tally_filters[index].type # "EnergyFunctionFilter"
    THEN Fails(fn, index, args, OPENMC_E_INVALID_TYPE)
  ELSE IF null THEN NullWrite(fn, index, args)
  ELSE Api(fn, index, args, "returned", 0,
           Wrote(tally_filters[index].energy_), tally_filters)

\* openmc_energyfunc_filter_get_y(index, n, y); null tells whether y (the
\* pointer written first) is a null pointer
openmc_energyfunc_filter_get_y(index, null) ==
  LET fn == "openmc_energyfunc_filter_get_y"
      args == <<IF null THEN 1 ELSE 0>> IN
  IF verify_filter(index) # 0
    THEN Fails(fn, index, args, verify_filter(index))
  ELSE IF tally_filters[index].type # "EnergyFunctionFilter"
    THEN Fails(fn, index, args, OPENMC_E_INVALID_TYPE)
  ELSE IF null THEN NullWrite(fn, index, args)
  ELSE Api(fn, index, args, "returned", 0,
           Wrote(tally_filters[index].y_), tally_filters)

\* the indices a caller passes: one that names no filter, and every filter
ApiIndex == {-1} \cup FilterIndex
MeshGetMesh ==
  \E i \in ApiIndex, null \in BOOLEAN : openmc_mesh_filter_get_mesh(i, null)
MeshSetMesh ==
  \E i \in ApiIndex, m \in -1..NMeshes : openmc_mesh_filter_set_mesh(i, m)
MeshSurfaceGetMesh ==
  \E i \in ApiIndex, null \in BOOLEAN :
    openmc_meshsurface_filter_get_mesh(i, null)
MeshSurfaceSetMesh ==
  \E i \in ApiIndex, m \in -1..NMeshes :
    openmc_meshsurface_filter_set_mesh(i, m)
ZernikeGetOrder ==
  \E i \in ApiIndex, null \in BOOLEAN : openmc_zernike_filter_get_order(i, null)
ZernikeGetParams ==
  \E i \in ApiIndex, null \in BOOLEAN : openmc_zernike_filter_get_params(i, null)
ZernikeSetOrder ==
  \E i \in ApiIndex, o \in -1..MaxOrder : openmc_zernike_filter_set_order(i, o)
ZernikeSetParams ==
  \E i \in ApiIndex, a \in ParamArgs :
    openmc_zernike_filter_set_params(i, a[1], a[2], a[3])
EnergyFuncSetData ==
  \E i \in ApiIndex, g \in GridArgs :
    openmc_energyfunc_filter_set_data(i, g[1], g[2])
EnergyFuncGetEnergy ==
  \E i \in ApiIndex, null \in BOOLEAN :
    openmc_energyfunc_filter_get_energy(i, null)
EnergyFuncGetY ==
  \E i \in ApiIndex, null \in BOOLEAN : openmc_energyfunc_filter_get_y(i, null)

\* the filters as the model build leaves them: each mesh filter on mesh 0,
\* the Zernike filters of order 0 around (0, 0) with radius 1, the
\* energy-function filter with an accepted grid
InitFilter ==
  /\ \E g \in {h \in GridArgs : Increasing(h[1]) /\ Len(h[1]) >= 1} :
       tally_filters =
         [i \in FilterIndex |->
            [type |-> TypeOf[i + 1], mesh_ |-> 0, order_ |-> 0, n_bins_ |-> 1,
             x_ |-> 0, yy_ |-> 0, r_ |-> 1,
             energy_ |-> IF TypeOf[i + 1] = "EnergyFunctionFilter"
                           THEN g[1] ELSE <<>>,
             y_ |-> IF TypeOf[i + 1] = "EnergyFunctionFilter"
                      THEN g[2] ELSE <<>>]]
  /\ out = Unwritten /\ match = <<>> /\ call = NoCall
  /\ data_ = Null /\ device_data_ = Null /\ size_ = 0 /\ capacity_ = 0
  /\ heap = NoBlocks /\ live = {} /\ nblocks = 0
  /\ devSize = 0 /\ devCap = 0 /\ devMap = NoMaps /\ devData = NoBlocks
  /\ op = "none" /\ opArg = 0 /\ ret = 0 /\ sinceClear = FALSE
  /\ IdleAppend /\ IdleNamed

filtFrame ==
  UNCHANGED <<saVars, devVars, op, opArg, sinceClear, appVars, match,
              namedVars>>

NextFilter ==
  \/ MeshGetMesh /\ filtFrame
  \/ MeshSetMesh /\ filtFrame
  \/ MeshSurfaceGetMesh /\ filtFrame
  \/ MeshSurfaceSetMesh /\ filtFrame
  \/ ZernikeGetOrder /\ filtFrame
  \/ ZernikeGetParams /\ filtFrame
  \/ ZernikeSetOrder /\ filtFrame
  \/ ZernikeSetParams /\ filtFrame
  \/ EnergyFuncSetData /\ filtFrame
  \/ EnergyFuncGetEnergy /\ filtFrame
  \/ EnergyFuncGetY /\ filtFrame

SpecFilter == InitFilter /\ [][NextFilter]_vars

\* -------------------------------------------------- claims on the filters
\* the setters of the C API
Setters ==
  {"openmc_mesh_filter_set_mesh", "openmc_meshsurface_filter_set_mesh",
   "openmc_zernike_filter_set_order", "openmc_zernike_filter_set_params",
   "openmc_energyfunc_filter_set_data"}

\* the last call was a setter of the C API and returned 0
SetterReturnedZero ==
  /\ call.fn \in Setters
  /\ call.outcome = "returned" /\ ret = 0

\* what the getter g has to deliver after the setter call c returned 0;
\* <<>> when g does not read what c set
Expected(c, g) ==
  CASE c.fn \in {"openmc_mesh_filter_set_mesh",
                 "openmc_meshsurface_filter_set_mesh"}
         /\ g \in {"openmc_mesh_filter_get_mesh",
                   "openmc_meshsurface_filter_get_mesh"} -> <<c.args>>
    [] c.fn = "openmc_zernike_filter_set_order"
         /\ g = "openmc_zernike_filter_get_order" -> <<c.args>>
    [] c.fn = "openmc_zernike_filter_set_params"
         /\ g = "openmc_zernike_filter_get_params" -> <<c.args>>
    [] c.fn = "openmc_energyfunc_filter_set_data"
         /\ g = "openmc_energyfunc_filter_get_energy" -> <<c.args[1]>>
    [] c.fn = "openmc_energyfunc_filter_set_data"
         /\ g = "openmc_energyfunc_filter_get_y" -> <<c.args[2]>>
    [] OTHER -> <<>>

\* C9: set_data with a grid that is not strictly increasing, on an
\* energy-function filter that holds data (E, Y), fails and leaves energy_
\* equal to E and y_ equal to Y.
C9_BadGridKeepsData ==
  [][(/\ call'.fn = "openmc_energyfunc_filter_set_data"
      /\ verify_filter(call'.index) = 0
      /\ tally_filters[call'.index].type = "EnergyFunctionFilter"
      /\ tally_filters[call'.index].energy_ # <<>>
      /\ ~Increasing(call'.args[1]))
     => /\ (call'.outcome # "returned" \/ ret' # 0)
        /\ tally_filters'[call'.index].energy_ = tally_filters[call'.index].energy_
        /\ tally_filters'[call'.index].y_ = tally_filters[call'.index].y_]_vars

\* C10: after a setter of the C API returned 0 on filter index i with value
\* v, the matching getter called next on index i (with a non-null output
\* pointer) returns 0 and delivers exactly v.
C10_SetGetRoundTrip ==
  [][(/\ SetterReturnedZero
      /\ call'.index = call.index
      /\ Expected(call, call'.fn) # <<>>
      /\ call'.args # <<1>>)
     => /\ call'.outcome = "returned" /\ ret' = 0
        /\ out' = Wrote(Expected(call, call'.fn)[1])]_vars

\* the getters of the C API
Getters ==
  {"openmc_mesh_filter_get_mesh", "openmc_meshsurface_filter_get_mesh",
   "openmc_zernike_filter_get_order", "openmc_zernike_filter_get_params",
   "openmc_energyfunc_filter_get_energy", "openmc_energyfunc_filter_get_y"}

\* C11: a getter of the C API called with a null output pointer returns the
\* invalid-argument code; a getter that returns a non-zero code has written
\* nothing through its output pointers; a getter that succeeds returns 0
\* after it wrote the value through its output pointers.
C11_GetterContract ==
  call.fn \in Getters =>
    /\ (call.args = <<1>> =>
          call.outcome = "returned" /\ ret = OPENMC_E_INVALID_ARGUMENT)
    /\ (call.outcome = "returned" /\ ret # 0 => out = Unwritten)
    /\ (call.args = <<0>> /\ verify_filter(call.index) = 0
          /\ (\/ /\ call.fn = "openmc_mesh_filter_get_mesh"
                 /\ TypeOf[call.index + 1] = "MeshFilter"
              \/ /\ call.fn \in {"openmc_zernike_filter_get_order",
                                 "openmc_zernike_filter_get_params"}
                 /\ TypeOf[call.index + 1] = "ZernikeFilter"
              \/ /\ call.fn \in {"openmc_energyfunc_filter_get_energy",
                                 "openmc_energyfunc_filter_get_y"}
                 /\ TypeOf[call.index + 1] = "EnergyFunctionFilter")
          => call.outcome = "returned" /\ ret = 0 /\ out.written)

\* C12: openmc_meshsurface_filter_set_mesh on an allocated filter whose type
\* tag is MeshSurfaceFilter, with a mesh index in range, returns 0 and stores
\* the mesh index in the filter; openmc_meshsurface_filter_get_mesh on such
\* a filter succeeds; and a mesh or mesh-surface call returns the
\* invalid-type code only when the type tag does not match the operation.
C12_MeshSurfaceServed ==
  [][/\ (/\ call'.fn = "openmc_meshsurface_filter_set_mesh"
         /\ verify_filter(call'.index) = 0
         /\ tally_filters[call'.index].type = "MeshSurfaceFilter"
         /\ call'.args[1] >= 0 /\ call'.args[1] < NMeshes)
        => /\ call'.outcome = "returned" /\ ret' = 0
           /\ tally_filters'[call'.index].mesh_ = call'.args[1]
     /\ (/\ call'.fn = "openmc_meshsurface_filter_get_mesh"
         /\ verify_filter(call'.index) = 0
         /\ tally_filters[call'.index].type = "MeshSurfaceFilter"
         /\ call'.args = <<0>>)
        => call'.outcome = "returned" /\ ret' # OPENMC_E_INVALID_TYPE
     /\ (/\ call'.fn \in {"openmc_meshsurface_filter_set_mesh",
                           "openmc_meshsurface_filter_get_mesh"}
         /\ call'.outcome = "returned" /\ ret' = OPENMC_E_INVALID_TYPE)
        => tally_filters[call'.index].type # "MeshSurfaceFilter"]_vars

\* the setter call that was just made fails: its index names no filter, the
\* type tag of the filter does not match it, its mesh index is out of range
\* or its Zernike order is negative
SetterFails(c, tf) ==
  \/ verify_filter(c.index) # 0
  \/ /\ c.fn \in {"openmc_mesh_filter_set_mesh",
                   "openmc_meshsurface_filter_set_mesh"}
     /\ \/ tf[c.index].type \notin {"MeshFilter", "MeshSurfaceFilter"}
        \/ c.args[1] < 0 \/ c.args[1] >= NMeshes
  \/ /\ c.fn \in {"openmc_zernike_filter_set_order",
                   "openmc_zernike_filter_set_params"}
     /\ tf[c.index].type \notin {"ZernikeFilter", "ZernikeRadialFilter"}
  \/ /\ c.fn = "openmc_zernike_filter_set_order"
     /\ c.args[1] < 0
  \/ /\ c.fn = "openmc_energyfunc_filter_set_data"
     /\ tf[c.index].type # "EnergyFunctionFilter"

\* C13: a setter call of the C API that fails (unallocated filter index,
\* type tag mismatch, mesh index out of range, negative Zernike order)
\* returns a non-zero error code and leaves the configuration of every
\* filter as it was.
C13_FailedSetterKeepsState ==
  [][(call'.fn \in Setters /\ SetterFails(call', tally_filters))
     => /\ call'.outcome = "returned" /\ ret' # 0
        /\ tally_filters' = tally_filters]_vars

\* ================================================= filter member functions
\* The member functions of the Zernike, Zernike-radial and energy-function
\* filters of model::tally_filters, called one at a time.

\* the capacity of a FilterMatch and the length of the scratch array zn
FILTERMATCH_BINS_WEIGHTS_SIZE == 125
\* the smallest order whose (order+1) * (order+2) exceeds INT_MAX
OverflowOrder == 46340
\* the orders a caller passes
Orders == (-1..MaxOrder) \cup {OverflowOrder}
\* the bins a caller asks a label for are -1..MaxBin
MaxBin == ((MaxOrder + 1) * (MaxOrder + 2)) \div 2
\* the positions of the particle, (x, y)
Positions == {<<0, 0>>, <<1, 0>>, <<1, 1>>, <<2, 0>>}
\* the energies of the particle
QueryEnergies == 0..(MaxLen + 1)

ZernikeIndex ==
  {i \in FilterIndex : TypeOf[i + 1] \in {"ZernikeFilter", "ZernikeRadialFilter"}}
EnergyFunctionIndex ==
  CHOOSE i \in FilterIndex : TypeOf[i + 1] = "EnergyFunctionFilter"

\* (n+1)(n+2)/2 for 0 <= n < 65535, computed without an overflow
Tri(n) ==
  IF n % 2 = 1 THEN ((n + 1) \div 2) * (n + 2) ELSE (n + 1) * ((n + 2) \div 2)

\* the process is running: nothing has killed it
Alive ==
  call.outcome \notin {"trapped", "terminated", "crashed", "overflowed",
                       "unreachable"}

\* what a call of a member function leaves behind
Member(fn, index, args, outcome, o, m, tf) ==
  /\ Alive
  /\ call' = [fn |-> fn, index |-> index, args |-> args, outcome |-> outcome]
  /\ out' = o
  /\ match' = m
  /\ tally_filters' = tf

\* filt.set_order(order) on the stored filter.  Where (order+1) * (order+2)
\* overflows the behaviour is undefined: the product wraps (set_order), or
\* the multiplication traps after order_ was assigned.
SetOrder(i, order) ==
  LET z == set_order(tally_filters[i], order) IN
    \/ Member("set_order", i, <<order>>,
              IF z.threw THEN "threw" ELSE "returned", Unwritten, <<>>,
              [tally_filters EXCEPT ![i] = z.filt])
    \/ /\ order >= 0 /\ MulOverflows(order + 1, order + 2)
       /\ Member("set_order", i, <<order>>, "trapped", Unwritten, <<>>,
                 [tally_filters EXCEPT ![i].order_ = order])

\* a format that swaps n and m
LabelSwapped(n, m) ==
  "Zernike expansion, Z" \o ToString(m) \o "," \o ToString(n)

\* fmt::format("Zernike expansion, Z{},{}", n, m)
Label(n, m) ==
  "Zernike expansion, Z" \o ToString(n) \o "," \o ToString(m)

\* the loop of ZernikeFilter_text_label from n on
RECURSIVE ZernikeLabelFrom(_, _, _)
ZernikeLabelFrom(f, bin, n) ==
  IF ~(n < f.order_ + 1) THEN [outcome |-> "unreachable", label |-> ""]
  ELSE LET last == ((n + 1) * (n + 2)) \div 2 IN
    IF bin < last
      THEN LET first == last - (n + 1)
               m == -n + (bin - first) * 2
           IN [outcome |-> "returned", label |-> Label(n, m)]
      ELSE ZernikeLabelFrom(f, bin, n + 1)

\* std::string Filter::ZernikeFilter_text_label(int bin) const
ZernikeFilter_text_label(f, bin) ==
  IF ~(bin >= 0 /\ bin < f.n_bins_)
    THEN [outcome |-> "terminated", label |-> ""]
    ELSE ZernikeLabelFrom(f, bin, 0)

\* std::string Filter::ZernikeRadialFilter_text_label(int bin) const
ZernikeRadialFilter_text_label(f, bin) ==
  [outcome |-> "returned",
   label |-> "Zernike expansion, Z" \o ToString(2 * bin) \o ",0"]

\* Filter::text_label, selected by the type tag
text_label(f, bin) ==
  IF f.type = "ZernikeRadialFilter"
    THEN ZernikeRadialFilter_text_label(f, bin)
    ELSE ZernikeFilter_text_label(f, bin)

TextLabel(i, bin) ==
  LET l == text_label(tally_filters[i], bin) IN
    Member("text_label", i, <<bin>>, l.outcome,
           IF l.outcome = "returned" THEN Wrote(l.label) ELSE Unwritten,
           <<>>, tally_filters)

\* r <= 1.0 for r = sqrt(x*x + y*y) / r_, with r_ > 0
InsideDisk(f, pos) ==
  LET x == pos[1] - f.x_
      y == pos[2] - f.yy_
  IN x * x + y * y <= f.r_ * f.r_

\* the number of entries calc_zn(order_, r, theta, zn) and
\* calc_zn_rad(order_, r, zn) write into zn
ZnWritten(f) ==
  IF f.type = "ZernikeRadialFilter" THEN f.order_ \div 2 + 1 ELSE Tri(f.order_)

\* zn[i], named by its index
ZnAt(i) == [num |-> i, den |-> 1]

\* for (int i = 0; i < n; i++) match.push_back(i, zn[i]);
PushedBins(n) ==
  [k \in 1..Max(n, 0) |-> [bin |-> k - 1, weight |-> ZnAt(k - 1)]]

\* Filter::ZernikeFilter_get_all_bins and ZernikeRadialFilter_get_all_bins
\* on a reset FilterMatch.  When calc_zn writes, or the loop reads and pushes,
\* beyond FILTERMATCH_BINS_WEIGHTS_SIZE entries the behaviour is undefined:
\* a fault kills the call, or it goes on beyond the arrays.
Zernike_get_all_bins(i, pos) ==
  LET f == tally_filters[i]
      fn == "Zernike_get_all_bins"
  IN IF ~InsideDisk(f, pos)
       THEN Member(fn, i, pos, "returned", Unwritten, <<>>, tally_filters)
     ELSE IF ZnWritten(f) > FILTERMATCH_BINS_WEIGHTS_SIZE
             \/ f.n_bins_ > FILTERMATCH_BINS_WEIGHTS_SIZE
       THEN \/ Member(fn, i, pos, "crashed", Unwritten, <<>>, tally_filters)
            \/ Member(fn, i, pos, "overflowed", Unwritten,
                      PushedBins(Min(f.n_bins_, FILTERMATCH_BINS_WEIGHTS_SIZE)),
                      tally_filters)
     ELSE Member(fn, i, pos, "returned", Unwritten, PushedBins(f.n_bins_),
                 tally_filters)

\* lower_bound_index(first, last, value) of openmc/search.h on a sorted
\* range: 0 when the first element is value, else the index of the last
\* element below value
lower_bound_index(e, value) ==
  IF e[1] = value THEN 0
  ELSE Cardinality({k \in 1..Len(e) : e[k] < value}) - 1

\* the entry pushed for the interval i (0-based) when energy_[i+1] reads e1
\* and y_[i+1] reads y1: f = (E - energy_[i]) / (e1 - energy_[i]) and weight
\* (1-f) * y_[i] + f * y1, as fractions (den = 0: not a number)
Interpolated(f, E, i, e1, y1) ==
  LET num == E - f.energy_[i + 1]
      den == e1 - f.energy_[i + 1]
  IN [f |-> [num |-> num, den |-> den],
      entry |-> [bin |-> 0,
                 weight |-> [num |-> (den - num) * f.y_[i + 1] + num * y1,
                             den |-> den]]]

\* Filter::EnergyFunctionFilter_get_all_bins on a reset FilterMatch, for a
\* particle with E_last_ = E.  front() and back() of an empty energy_, and
\* energy_[i+1], y_[i+1] beyond the last element, are undefined: a fault
\* kills the call, or the reads deliver some value.
EnergyFunctionFilter_get_all_bins(index, E) ==
  LET f == tally_filters[index]
      fn == "EnergyFunctionFilter_get_all_bins"
      n == Len(f.energy_)
      i == lower_bound_index(f.energy_, E)
      Pushes(r) ==
        Member(fn, index, <<E>>, "returned", Wrote(<<i, r.f.num, r.f.den>>),
               <<r.entry>>, tally_filters)
  IN IF n = 0
       THEN \/ Member(fn, index, <<E>>, "crashed", Unwritten, <<>>,
                      tally_filters)
            \/ Member(fn, index, <<E>>, "returned", Unwritten, <<>>,
                      tally_filters)
            \/ Member(fn, index, <<E>>, "returned", Wrote(<<-1, 0, 0>>),
                      <<[bin |-> 0, weight |-> [num |-> 0, den |-> 0]]>>,
                      tally_filters)
     ELSE IF E >= f.energy_[1] /\ E <= f.energy_[n]
       THEN IF i + 1 >= n
              THEN \/ Member(fn, index, <<E>>, "crashed", Unwritten, <<>>,
                             tally_filters)
                   \/ \E g \in {f.energy_[i + 1], f.energy_[i + 1] + 1} :
                        Pushes(Interpolated(f, E, i, g, 0))
              ELSE Pushes(Interpolated(f, E, i, f.energy_[i + 2], f.y_[i + 2]))
     ELSE Member(fn, index, <<E>>, "returned", Unwritten, <<>>, tally_filters)

\* filt.set_data(energy, y) on the stored energy-function filter
SetData(index, energy, y) ==
  LET updated == set_data(tally_filters[index], energy, y) IN
    Member("set_data", index, <<energy, y>>,
           IF updated.threw THEN "threw" ELSE "returned", Unwritten, <<>>,
           [tally_filters EXCEPT ![index] = updated.filt])

FilterSetOrder == \E i \in ZernikeIndex, o \in Orders : SetOrder(i, o)
FilterTextLabel == \E i \in ZernikeIndex, b \in -1..MaxBin : TextLabel(i, b)
ZernikeGetAllBins ==
  \E i \in ZernikeIndex, pos \in Positions : Zernike_get_all_bins(i, pos)
FilterSetData ==
  \E g \in GridArgs : SetData(EnergyFunctionIndex, g[1], g[2])
EnergyFuncGetAllBins ==
  \E E \in QueryEnergies :
    EnergyFunctionFilter_get_all_bins(EnergyFunctionIndex, E)

InitEval == InitFilter

evalFrame == UNCHANGED <<saVars, devVars, seqVars, appVars, namedVars>>

NextEval ==
  \/ FilterSetOrder /\ evalFrame
  \/ FilterTextLabel /\ evalFrame
  \/ ZernikeGetAllBins /\ evalFrame
  \/ FilterSetData /\ evalFrame
  \/ EnergyFuncGetAllBins /\ evalFrame

SpecEval == InitEval /\ [][NextEval]_vars

\* ----------------------------------------- claims on the member functions
\* C14: bin count tracks order.  After any sequence of set_order calls a
\* Zernike filter of order N has n_bins = (N+1)(N+2)/2 and a Zernike-radial
\* filter of order N has n_bins = N/2 + 1, for every order an int holds, and
\* n_bins is never negative.
C14_BinsTrackOrder ==
  \A i \in ZernikeIndex :
    LET f == tally_filters[i] IN
      /\ f.n_bins_ >= 0
      /\ f.n_bins_ = IF f.type = "ZernikeRadialFilter"
                       THEN f.order_ \div 2 + 1 ELSE Tri(f.order_)

\* the name of Z(n, m) in a label
Z(n, m) == "Zernike expansion, Z" \o ToString(n) \o "," \o ToString(m)

\* the orders n with n(n+1)/2 <= bin < (n+1)(n+2)/2
OrdersOfBin(bin) ==
  {n \in 0..bin : (n * (n + 1)) \div 2 <= bin
                  /\ bin < ((n + 1) * (n + 2)) \div 2}

\* the bins of the filter f that a label is checked for
LabelBins(f) == 0..(Min(f.n_bins_, MaxBin + 1) - 1)

\* C15: Zernike labels follow the triangular (n, m) ordering.  For a Zernike
\* filter and every bin in [0, n_bins), text_label names Z(n, m) with n the
\* unique order such that n(n+1)/2 <= bin < (n+1)(n+2)/2 and
\* m = -n + 2 (bin - n(n+1)/2); bin 0 is Z(0, 0); |m| <= n and n - m is
\* even; distinct bins have distinct labels; for a radial filter bin k is
\* labelled Z(2k, 0).  The label the last text_label call returned is the
\* one named here.
C15_TriangularLabels ==
  /\ \A i \in ZernikeIndex :
       LET f == tally_filters[i] IN
         IF f.type = "ZernikeFilter"
           THEN /\ \A bin \in LabelBins(f) :
                     /\ Cardinality(OrdersOfBin(bin)) = 1
                     /\ LET n == CHOOSE k \in OrdersOfBin(bin) : TRUE
                            m == -n + 2 * (bin - (n * (n + 1)) \div 2)
                        IN /\ text_label(f, bin) =
                                [outcome |-> "returned", label |-> Z(n, m)]
                           /\ -n <= m /\ m <= n /\ (n - m) % 2 = 0
                           /\ n <= f.order_
                /\ \A b1, b2 \in LabelBins(f) :
                     b1 # b2 => text_label(f, b1) # text_label(f, b2)
                /\ (0 \in LabelBins(f) => text_label(f, 0).label = Z(0, 0))
           ELSE \A k \in LabelBins(f) :
                  text_label(f, k) =
                    [outcome |-> "returned", label |-> Z(2 * k, 0)]
  /\ (call.fn = "text_label" /\ call.args[1] \in LabelBins(tally_filters[call.index]))
       => /\ call.outcome = "returned"
          /\ out = Wrote(text_label(tally_filters[call.index], call.args[1]).label)
          /\ (tally_filters[call.index].type = "ZernikeRadialFilter"
                => out.val = Z(2 * call.args[1], 0))
          /\ (tally_filters[call.index].type = "ZernikeFilter"
                => \E n \in OrdersOfBin(call.args[1]) :
                     out.val =
                       Z(n, -n + 2 * (call.args[1] - (n * (n + 1)) \div 2)))

C15_Witness ==
  /\ call.fn = "text_label" /\ call.outcome = "returned"
  /\ tally_filters[call.index].type = "ZernikeFilter"
  /\ tally_filters[call.index].order_ = 2
  /\ call.args = <<3>> /\ out = Wrote("Zernike expansion, Z2,-2")
  /\ \E i \in ZernikeIndex :
       /\ tally_filters[i].type = "ZernikeRadialFilter"
       /\ tally_filters[i].order_ = 2

\* C16: EnergyFunctionFilter_get_all_bins appends nothing when the
\* particle's energy is below the first or above the last grid energy, and
\* exactly one entry, with bin 0, when it lies within [first, last]; it
\* changes neither the filter nor the particle.
C16_OneBinInsideGrid ==
  [][(/\ call'.fn = "EnergyFunctionFilter_get_all_bins"
      /\ tally_filters[call'.index].energy_ # <<>>)
     => LET e == tally_filters[call'.index].energy_
            E == call'.args[1]
        IN /\ call'.outcome = "returned"
           /\ (E < e[1] \/ E > e[Len(e)] => match' = <<>>)
           /\ (E >= e[1] /\ E <= e[Len(e)] =>
                 Len(match') = 1 /\ match'[1].bin = 0)
           /\ tally_filters' = tally_filters]_vars

\* C17: grid-point exactness.  For an accepted grid e0 < ... < en (n >= 0)
\* with values y0..yn, a query at energy e_i selects an interval index j
\* with 0 <= j and j + 1 <= n, uses interpolation factor 0 or 1, and emits
\* the weight y_i.
C17_GridPointExact ==
  LET f == tally_filters[EnergyFunctionIndex]
      e == f.energy_
      n == Len(e) - 1
  IN (/\ call.fn = "EnergyFunctionFilter_get_all_bins"
      /\ \E k \in 1..Len(e) : e[k] = call.args[1])
     => LET k == CHOOSE k \in 1..Len(e) : e[k] = call.args[1] IN
          /\ call.outcome = "returned"
          /\ out.written
          /\ 0 <= out.val[1] /\ out.val[1] + 1 <= n
          /\ out.val[3] # 0
          /\ (out.val[2] = 0 \/ out.val[2] = out.val[3])
          /\ Len(match) = 1
          /\ match[1].weight.den # 0
          /\ match[1].weight.num = f.y_[k] * match[1].weight.den

\* C18: a FilterMatch never holds more entries than its capacity.  For a
\* Zernike or Zernike-radial filter configured by accepted set_order calls,
\* n_bins <= FILTERMATCH_BINS_WEIGHTS_SIZE; get_all_bins on a reset
\* FilterMatch appends, for a position inside the disk, the bins
\* 0, 1, ..., n_bins - 1 in this order and indexes zn only below its length,
\* and for a position outside the disk nothing.
C18_MatchWithinCapacity ==
  /\ \A i \in ZernikeIndex :
       tally_filters[i].n_bins_ <= FILTERMATCH_BINS_WEIGHTS_SIZE
  /\ call.fn = "Zernike_get_all_bins" =>
       LET f == tally_filters[call.index] IN
         /\ call.outcome = "returned"
         /\ Len(match) <= FILTERMATCH_BINS_WEIGHTS_SIZE
         /\ IF InsideDisk(f, call.args)
              THEN /\ Len(match) = f.n_bins_
                   /\ \A k \in 1..Len(match) : match[k].bin = k - 1
                   /\ ZnWritten(f) <= FILTERMATCH_BINS_WEIGHTS_SIZE
              ELSE match = <<>>

\* ====================================================================
\* Named (include/openmc/named.h): a mixin that owns a C string. Blocks are
\* named by the allocation that produced them, so a block that was freed
\* stays recognisable as freed.
\* ====================================================================
NameStrings == {"a", "bb"}            \* the non-empty names that are set
NameArgs == NameStrings \cup {""}     \* the arguments of set_name

\* malloc(len + 1): the block the next allocation returns.
CanMalloc(hp) == \E b \in NameBlocks : hp[b].state = "unused"
malloc(hp) ==
  CHOOSE b \in NameBlocks :
    /\ hp[b].state = "unused"
    /\ \A c \in NameBlocks : hp[c].state = "unused" => b <= c

\* std::free(p), p not null.
std_free(hp, p) == [hp EXCEPT ![p].state = "freed", ![p].frees = @ + 1]

\* std::strcpy(name_, s); name_[len] = '\0' on the block p just obtained.
strcpy(hp, p, s) ==
  [hp EXCEPT ![p] = [state |-> "allocated", str |-> s, frees |-> @.frees]]

\* named.h:84-90. The private free(): releases the block, nulls name_.
free(nm, hp, o) ==
  IF nm[o].name_ # Null
    THEN [named |-> [nm EXCEPT ![o].name_ = Null],
          nameHeap |-> std_free(hp, nm[o].name_)]
    ELSE [named |-> nm, nameHeap |-> hp]

\* named.h:71-77. name(): the string name_ points to, or "".
name(nm, hp, o) == IF nm[o].name_ # Null THEN hp[nm[o].name_].str ELSE ""

\* named.h:79.
name_empty(nm, o) == nm[o].name_ = Null

\* named.h:38-43 and 49-54. The body shared by the copy constructor and
\* the copy assignment: if (other.name_) { malloc; strcpy }, run in the
\* state (nm, hp) the caller has reached.
CopyName(nm, hp, o, other) ==
  IF nm[other].name_ # Null
    THEN LET p == malloc(hp)
         IN  [named |-> [nm EXCEPT ![o].name_ = p],
              nameHeap |-> strcpy(hp, p, hp[nm[other].name_].str)]
    ELSE [named |-> nm, nameHeap |-> hp]

\* named.h:23-27 and 29-34. The body shared by the move constructor and
\* the move assignment: name_ = other.name_; other.name_ = nullptr. The
\* second assignment acts on the result of the first, which matters when
\* other is *this.
MoveName(nm, o, other) ==
  LET first == [nm EXCEPT ![o].name_ = nm[other].name_]
  IN  [first EXCEPT ![other].name_ = Null]

\* named.h:46-56. operator=(const Named&).
operator_assign_copy(nm, hp, o, other) ==
  LET freed == free(nm, hp, o)
  IN  CopyName(freed.named, freed.nameHeap, o, other)

\* named.h:60-69. set_name: the results realloc can give are the same
\* block (resized in place, inPlace = TRUE) and a new block with the old
\* one released; realloc(nullptr, n) is malloc(n).
set_name(nm, hp, o, s, inPlace) ==
  IF s = ""
    THEN free(nm, hp, o)
    ELSE IF nm[o].name_ # Null /\ inPlace
      THEN [named |-> nm, nameHeap |-> strcpy(hp, nm[o].name_, s)]
      ELSE LET p == malloc(hp)
               released == IF nm[o].name_ # Null
                             THEN std_free(hp, nm[o].name_) ELSE hp
           IN  [named |-> [nm EXCEPT ![o].name_ = p],
                nameHeap |-> strcpy(released, p, s)]

NamedDid(fn, a, b) == namedOp' = [fn |-> fn, a |-> a, b |-> b]
namedFrame == UNCHANGED <<saVars, devVars, seqVars, appVars, filtVars>>

\* named.h:21 and 82. Named() = default: name_ {nullptr}.
Construct(o) ==
  /\ ~named[o].alive
  /\ named' = [named EXCEPT ![o] = [alive |-> TRUE, name_ |-> Null]]
  /\ UNCHANGED nameHeap
  /\ NamedDid("construct", o, 0)

\* named.h:23-27. Named(Named&& other).
MoveConstruct(o, other) ==
  /\ ~named[o].alive /\ named[other].alive
  /\ named' = MoveName([named EXCEPT ![o] = [alive |-> TRUE, name_ |-> Null]],
                       o, other)
  /\ UNCHANGED nameHeap
  /\ NamedDid("move_construct", o, other)

\* named.h:29-34. a = std::move(other), other being any live object.
MoveAssign(o, other) ==
  /\ named[o].alive /\ named[other].alive
  /\ named' = MoveName(named, o, other)
  /\ UNCHANGED nameHeap
  /\ NamedDid("move_assign", o, other)

\* named.h:36-44. Named(const Named& other).
CopyConstruct(o, other) ==
  /\ ~named[o].alive /\ named[other].alive
  /\ named[other].name_ # Null => CanMalloc(nameHeap)
  /\ LET r == CopyName([named EXCEPT ![o] = [alive |-> TRUE, name_ |-> Null]],
                       nameHeap, o, other)
     IN  named' = r.named /\ nameHeap' = r.nameHeap
  /\ NamedDid("copy_construct", o, other)

\* named.h:46-56. a = other, other being any live object.
CopyAssign(o, other) ==
  /\ named[o].alive /\ named[other].alive
  /\ free(named, nameHeap, o).named[other].name_ # Null => CanMalloc(nameHeap)
  /\ LET r == operator_assign_copy(named, nameHeap, o, other)
     IN  named' = r.named /\ nameHeap' = r.nameHeap
  /\ NamedDid("copy_assign", o, other)

\* named.h:60-69.
SetName(o, s, inPlace) ==
  /\ named[o].alive
  /\ (s # "" /\ ~(named[o].name_ # Null /\ inPlace)) => CanMalloc(nameHeap)
  /\ LET r == set_name(named, nameHeap, o, s, inPlace)
     IN  named' = r.named /\ nameHeap' = r.nameHeap
  /\ NamedDid("set_name", o, 0)

\* named.h:58. ~Named() { free(); }
Destroy(o) ==
  /\ named[o].alive
  /\ LET r == free(named, nameHeap, o)
     IN  /\ named' = [r.named EXCEPT ![o].alive = FALSE]
         /\ nameHeap' = r.nameHeap
  /\ NamedDid("destroy", o, 0)

InitNamed ==
  /\ data_ = Null /\ device_data_ = Null /\ size_ = 0 /\ capacity_ = 0
  /\ heap = NoBlocks /\ live = {} /\ nblocks = 0
  /\ devSize = 0 /\ devCap = 0 /\ devMap = NoMaps /\ devData = NoBlocks
  /\ op = "none" /\ opArg = 0 /\ ret = 0 /\ sinceClear = FALSE
  /\ IdleAppend /\ IdleFilters /\ IdleNamed

NextNamed ==
  \/ \E o \in Objects : Construct(o) /\ namedFrame
  \/ \E o, other \in Objects : MoveConstruct(o, other) /\ namedFrame
  \/ \E o, other \in Objects : MoveAssign(o, other) /\ namedFrame
  \/ \E o, other \in Objects : CopyConstruct(o, other) /\ namedFrame
  \/ \E o, other \in Objects : CopyAssign(o, other) /\ namedFrame
  \/ \E o \in Objects, s \in NameArgs, inPlace \in BOOLEAN :
       SetName(o, s, inPlace) /\ namedFrame
  \/ \E o \in Objects : Destroy(o) /\ namedFrame

SpecNamed == InitNamed /\ [][NextNamed]_vars

\* ------------------------------------------------------------ Named claims
\* The live objects that hold block b in name_.
OwnersOf(nm, b) == {o \in Objects : nm[o].alive /\ nm[o].name_ = b}

\* Every allocated block is held by exactly one live object, and a block
\* that was released was released once.
OwnedOnce(nm, hp) ==
  \A b \in NameBlocks :
    /\ hp[b].state = "allocated" => Cardinality(OwnersOf(nm, b)) = 1
    /\ hp[b].state = "freed" => hp[b].frees = 1 /\ OwnersOf(nm, b) = {}
    /\ hp[b].state = "unused" => hp[b].frees = 0 /\ OwnersOf(nm, b) = {}

\* C21: Named has value semantics under every sequence of set_name, copy and
\* move construction, copy and move assignment and destruction: after a
\* copy assignment a = b (a and b the same object included) a.name() is the
\* name b had before and b's name is unchanged; after a move from a
\* different object the source reports name_empty(); and every allocated
\* name block is owned by exactly one live object and freed exactly once.
C21_ValueSemantics ==
  [][LET a == namedOp'.a
         b == namedOp'.b
     IN  /\ namedOp'.fn = "copy_assign" =>
              /\ name(named', nameHeap', a) = name(named, nameHeap, b)
              /\ name(named', nameHeap', b) = name(named, nameHeap, b)
         /\ (namedOp'.fn \in {"move_construct", "move_assign"} /\ a # b) =>
              name_empty(named', b)
         /\ OwnedOnce(named', nameHeap')]_vars

====
